---- MODULE Spec2Model ----
(***************************************************************************)
(* Buddy memory allocator (class BuddySystem): construction, size rounding, *)
(* allocate with block splitting, free with buddy coalescing.              *)
(***************************************************************************)
EXTENDS Integers, Sequences, FiniteSets, TLC

VARIABLES phase, ctor_arg, total_memory, free_list, allocated, call, old

vars == <<phase, ctor_arg, total_memory, free_list, allocated, call, old>>

(* ---- bounds of the explored inputs ---- *)
MaxNegTotalInput == 4
MaxTotalInput == 8
MaxSize == 9
MaxAddress == 8
MaxNptSize == 17

TotalMemoryInputs == (-MaxNegTotalInput)..MaxTotalInput
SizeInputs == 1..MaxSize
AddressInputs == -1..MaxAddress
NptInputs == 1..MaxNptSize

(* ---- Python integer operators ---- *)
RECURSIVE BitAnd(_, _)
BitAnd(x, y) ==
    IF x = 0 \/ y = 0 THEN 0
    ELSE IF x = -1 THEN y
    ELSE IF y = -1 THEN x
    ELSE ((x % 2) * (y % 2)) + 2 * BitAnd(x \div 2, y \div 2)

RECURSIVE BitXor(_, _)
BitXor(x, y) ==
    IF x = 0 THEN y
    ELSE IF y = 0 THEN x
    ELSE IF x = -1 THEN (-y) - 1
    ELSE IF y = -1 THEN (-x) - 1
    ELSE (((x % 2) + (y % 2)) % 2) + 2 * BitXor(x \div 2, y \div 2)

MinOf(S) == CHOOSE m \in S : \A x \in S : m <= x

Min2(a, b) == IF a <= b THEN a ELSE b

(* ---- Python list / dict operators ---- *)
EmptyMap == [x \in {} |-> 0]

InSeq(x, s) == \E i \in 1..Len(s) : s[i] = x

\* list.remove(x): drops the first occurrence of x
ListRemove(s, x) ==
    LET i == MinOf({j \in 1..Len(s) : s[j] = x})
    IN  SubSeq(s, 1, i - 1) \o SubSeq(s, i + 1, Len(s))

\* variant: the list is sorted in descending order
ListSort_Descending(s) == SortSeq(s, LAMBDA a, b : a > b)

\* list.sort()
ListSort(s) == SortSeq(s, LAMBDA a, b : a < b)

\* d.setdefault(k, []).append(v)
SetDefaultAppend(d, k, v) ==
    [x \in DOMAIN d \cup {k} |->
        IF x = k THEN (IF k \in DOMAIN d THEN Append(d[k], v) ELSE <<v>>)
        ELSE d[x]]

\* d.get(k, [])
GetOrEmpty(d, k) == IF k \in DOMAIN d THEN d[k] ELSE <<>>

\* d[k] = v
DictSet(d, k, v) == [x \in DOMAIN d \cup {k} |-> IF x = k THEN v ELSE d[x]]

\* del d[k]
DictDel(d, k) == [x \in DOMAIN d \ {k} |-> d[x]]

(* ---- BuddySystem.__init__ ---- *)
\* the constructor's rejection test
InitRaises(tm) == BitAnd(tm, tm - 1) # 0

(* ---- BuddySystem.next_power_of_two ---- *)
\* variant: the loop stops one doubling early and rounds down
RECURSIVE NptLoop_RoundDown(_, _)
NptLoop_RoundDown(power, size) ==
    IF power * 2 <= size THEN NptLoop_RoundDown(power * 2, size) ELSE power

RECURSIVE NptLoop(_, _)
NptLoop(power, size) == IF power < size THEN NptLoop(power * 2, size) ELSE power

next_power_of_two(size) ==
    IF BitAnd(size, size - 1) = 0 THEN size ELSE NptLoop(1, size)

(* ---- BuddySystem.allocate ---- *)
\* variant: a block of exactly the requested size is passed over
Candidates_Strict(fl, size) == {b \in DOMAIN fl : b > size /\ fl[b] # <<>>}

\* variant: only a block of exactly the requested size is taken, none is split
Candidates_ExactOnly(fl, size) == {b \in DOMAIN fl : b = size /\ fl[b] # <<>>}

\* sizes whose free list can serve the request
Candidates(fl, size) == {b \in DOMAIN fl : b >= size /\ fl[b] # <<>>}

\* variant: the scan keeps the last hit, the largest serving size
FindBlock_Largest(fl, size) ==
    CHOOSE m \in Candidates(fl, size) : \A x \in Candidates(fl, size) : m >= x

\* first hit of the scan over sorted(self.free_list)
FindBlock(fl, size) == MinOf(Candidates(fl, size))

\* variant: pop() takes the last address of the list
PopBack(s) == [item |-> s[Len(s)], rest |-> SubSeq(s, 1, Len(s) - 1)]

\* self.free_list[block_size].pop(0)
PopFront(s) == [item |-> Head(s), rest |-> Tail(s)]

\* variant: the loop ends one halving early and leaves the last buddy out
RECURSIVE Split_StopEarly(_, _, _, _)
Split_StopEarly(fl, address, block_size, size) ==
    IF block_size > size * 2
    THEN LET half == block_size \div 2
         IN  Split_StopEarly(SetDefaultAppend(fl, half, address + half),
                             address, half, size)
    ELSE fl

\* variant: the buddy address is computed before the block size is halved
RECURSIVE Split_NoHalve(_, _, _, _)
Split_NoHalve(fl, address, block_size, size) ==
    IF block_size > size
    THEN LET half == block_size \div 2
         IN  Split_NoHalve(SetDefaultAppend(fl, half, address + block_size),
                           address, half, size)
    ELSE fl

RECURSIVE Split(_, _, _, _)
Split(fl, address, block_size, size) ==
    IF block_size > size
    THEN LET half == block_size \div 2
         IN  Split(SetDefaultAppend(fl, half, address + half), address, half, size)
    ELSE fl

\* variant: the table records the requested size instead of the rounded size
allocate_RecordsRequested(fl, al, tm, size_in) ==
    LET size == next_power_of_two(size_in)
    IN  IF size > tm
        THEN [err |-> "RequestTooLarge", ret |-> -1, free_list |-> fl, allocated |-> al]
        ELSE IF Candidates(fl, size) = {}
        THEN [err |-> "NoSuitableBlock", ret |-> -1, free_list |-> fl, allocated |-> al]
        ELSE LET block_size == FindBlock(fl, size)
                 address == PopFront(fl[block_size]).item
                 popped == [fl EXCEPT ![block_size] = PopFront(fl[block_size]).rest]
             IN  [err |-> "none", ret |-> address,
                  free_list |-> Split(popped, address, block_size, size),
                  allocated |-> DictSet(al, address, size_in)]

allocate(fl, al, tm, size_in) ==
    LET size == next_power_of_two(size_in)
    IN  IF size > tm
        THEN [err |-> "RequestTooLarge", ret |-> -1, free_list |-> fl, allocated |-> al]
        ELSE IF Candidates(fl, size) = {}
        THEN [err |-> "NoSuitableBlock", ret |-> -1, free_list |-> fl, allocated |-> al]
        ELSE LET block_size == FindBlock(fl, size)
                 address == PopFront(fl[block_size]).item
                 popped == [fl EXCEPT ![block_size] = PopFront(fl[block_size]).rest]
             IN  [err |-> "none", ret |-> address,
                  free_list |-> Split(popped, address, block_size, size),
                  allocated |-> DictSet(al, address, size)]

(* ---- BuddySystem.free ---- *)
\* variant: only the address is validated, the size is not compared
FreeRejects_AddressOnly(al, address, size) == address \notin DOMAIN al

\* the validation of (address, rounded size) against the allocated table
FreeRejects(al, address, size) == address \notin DOMAIN al \/ al[address] # size

\* variant: the buddy is looked for at address + size
RECURSIVE Coalesce_PlusBuddy(_, _, _, _)
Coalesce_PlusBuddy(fl, address, size, tm) ==
    IF size < tm
    THEN LET buddy_address == address + size
         IN  IF InSeq(buddy_address, GetOrEmpty(fl, size))
             THEN Coalesce_PlusBuddy([fl EXCEPT ![size] = ListRemove(@, buddy_address)],
                                     Min2(address, buddy_address), size * 2, tm)
             ELSE [free_list |-> fl, address |-> address, size |-> size]
    ELSE [free_list |-> fl, address |-> address, size |-> size]

\* variant: at most one merge is made
Coalesce_Once(fl, address, size, tm) ==
    IF size < tm /\ InSeq(BitXor(address, size), GetOrEmpty(fl, size))
    THEN [free_list |-> [fl EXCEPT ![size] = ListRemove(@, BitXor(address, size))],
          address |-> Min2(address, BitXor(address, size)), size |-> size * 2]
    ELSE [free_list |-> fl, address |-> address, size |-> size]

\* variant: the merged block keeps the freed address instead of the lower one
RECURSIVE Coalesce_KeepAddress(_, _, _, _)
Coalesce_KeepAddress(fl, address, size, tm) ==
    IF size < tm
    THEN LET buddy_address == BitXor(address, size)
         IN  IF InSeq(buddy_address, GetOrEmpty(fl, size))
             THEN Coalesce_KeepAddress([fl EXCEPT ![size] = ListRemove(@, buddy_address)],
                                       address, size * 2, tm)
             ELSE [free_list |-> fl, address |-> address, size |-> size]
    ELSE [free_list |-> fl, address |-> address, size |-> size]

\* variant: the loop stops before the last merge into the whole memory
RECURSIVE Coalesce_StopEarly(_, _, _, _)
Coalesce_StopEarly(fl, address, size, tm) ==
    IF size * 2 < tm
    THEN LET buddy_address == BitXor(address, size)
         IN  IF InSeq(buddy_address, GetOrEmpty(fl, size))
             THEN Coalesce_StopEarly([fl EXCEPT ![size] = ListRemove(@, buddy_address)],
                                     Min2(address, buddy_address), size * 2, tm)
             ELSE [free_list |-> fl, address |-> address, size |-> size]
    ELSE [free_list |-> fl, address |-> address, size |-> size]

RECURSIVE Coalesce(_, _, _, _)
Coalesce(fl, address, size, tm) ==
    IF size < tm
    THEN LET buddy_address == BitXor(address, size)
         IN  IF InSeq(buddy_address, GetOrEmpty(fl, size))
             THEN Coalesce([fl EXCEPT ![size] = ListRemove(@, buddy_address)],
                           Min2(address, buddy_address), size * 2, tm)
             ELSE [free_list |-> fl, address |-> address, size |-> size]
    ELSE [free_list |-> fl, address |-> address, size |-> size]

\* variant: the merged block is appended and the list is left unsorted
InsertFree_NoSort(fl, size, address) == SetDefaultAppend(fl, size, address)

\* append the merged block and sort its list
InsertFree(fl, size, address) ==
    LET appended == SetDefaultAppend(fl, size, address)
    IN  [appended EXCEPT ![size] = ListSort(@)]

\* variant: the allocated entry is kept when the block is freed
free_NoDelete(fl, al, tm, address, size_in) ==
    LET size == next_power_of_two(size_in)
    IN  IF size > tm
        THEN [err |-> "RequestTooLarge", free_list |-> fl, allocated |-> al]
        ELSE IF FreeRejects(al, address, size)
        THEN [err |-> "InvalidFree", free_list |-> fl, allocated |-> al]
        ELSE LET m == Coalesce(fl, address, size, tm)
             IN  [err |-> "none",
                  free_list |-> InsertFree(m.free_list, m.size, m.address),
                  allocated |-> al]

\* variant: the allocated entry is deleted before the size is compared
free_DeleteFirst(fl, al, tm, address, size_in) ==
    LET size == next_power_of_two(size_in)
    IN  IF size > tm
        THEN [err |-> "RequestTooLarge", free_list |-> fl, allocated |-> al]
        ELSE IF address \notin DOMAIN al
        THEN [err |-> "InvalidFree", free_list |-> fl, allocated |-> al]
        ELSE IF al[address] # size
        THEN [err |-> "InvalidFree", free_list |-> fl, allocated |-> DictDel(al, address)]
        ELSE LET m == Coalesce(fl, address, size, tm)
             IN  [err |-> "none",
                  free_list |-> InsertFree(m.free_list, m.size, m.address),
                  allocated |-> DictDel(al, address)]

free(fl, al, tm, address, size_in) ==
    LET size == next_power_of_two(size_in)
    IN  IF size > tm
        THEN [err |-> "RequestTooLarge", free_list |-> fl, allocated |-> al]
        ELSE IF FreeRejects(al, address, size)
        THEN [err |-> "InvalidFree", free_list |-> fl, allocated |-> al]
        ELSE LET m == Coalesce(fl, address, size, tm)
             IN  [err |-> "none",
                  free_list |-> InsertFree(m.free_list, m.size, m.address),
                  allocated |-> DictDel(al, address)]

(* ---- state machine ---- *)
Snapshot == [free_list |-> free_list, allocated |-> allocated]

NoCall == [op |-> "none", size |-> 0, address |-> -1, err |-> "none", ret |-> -1]

Init ==
    /\ phase = "new"
    /\ ctor_arg \in TotalMemoryInputs
    /\ total_memory = 0
    /\ free_list = EmptyMap
    /\ allocated = EmptyMap
    /\ call = NoCall
    /\ old = [free_list |-> EmptyMap, allocated |-> EmptyMap]

\* BuddySystem(total_memory)
Construct ==
    /\ phase = "new"
    /\ IF InitRaises(ctor_arg)
       THEN /\ phase' = "failed"
            /\ call' = [op |-> "construct", size |-> ctor_arg, address |-> -1,
                        err |-> "NotPowerOfTwo", ret |-> -1]
            /\ UNCHANGED <<total_memory, free_list, allocated>>
       ELSE /\ phase' = "ready"
            /\ total_memory' = ctor_arg
            /\ free_list' = [s \in {ctor_arg} |-> <<0>>]
            /\ allocated' = EmptyMap
            /\ call' = [op |-> "construct", size |-> ctor_arg, address |-> -1,
                        err |-> "none", ret |-> -1]
    /\ old' = Snapshot
    /\ UNCHANGED ctor_arg

\* buddy.next_power_of_two(size)
NextPowerOfTwo(size) ==
    /\ phase = "ready"
    /\ call' = [op |-> "next_power_of_two", size |-> size, address |-> -1,
                err |-> "none", ret |-> next_power_of_two(size)]
    /\ old' = Snapshot
    /\ UNCHANGED <<phase, ctor_arg, total_memory, free_list, allocated>>

\* buddy.allocate(size)
Allocate(size) ==
    /\ phase = "ready"
    /\ LET r == allocate(free_list, allocated, total_memory, size)
       IN  /\ free_list' = r.free_list
           /\ allocated' = r.allocated
           /\ call' = [op |-> "allocate", size |-> size, address |-> -1,
                       err |-> r.err, ret |-> r.ret]
    /\ old' = Snapshot
    /\ UNCHANGED <<phase, ctor_arg, total_memory>>

\* buddy.free(address, size)
Free(address, size) ==
    /\ phase = "ready"
    /\ LET r == free(free_list, allocated, total_memory, address, size)
       IN  /\ free_list' = r.free_list
           /\ allocated' = r.allocated
           /\ call' = [op |-> "free", size |-> size, address |-> address,
                       err |-> r.err, ret |-> -1]
    /\ old' = Snapshot
    /\ UNCHANGED <<phase, ctor_arg, total_memory>>

Next ==
    \/ Construct
    \/ \E size \in NptInputs : NextPowerOfTwo(size)
    \/ \E size \in SizeInputs : Allocate(size)
    \/ \E address \in AddressInputs, size \in SizeInputs : Free(address, size)

Spec == Init /\ [][Next]_vars

(* ---- auxiliary definitions for the properties ---- *)
RECURSIVE IsPowerOfTwo(_)
IsPowerOfTwo(n) == n >= 1 /\ (n = 1 \/ (n % 2 = 0 /\ IsPowerOfTwo(n \div 2)))

IsMultiple(a, s) == a >= 0 /\ \E k \in 0..a : a = k * s

\* every block of a snapshot: free-list entries by (size, position), allocated by address
BlocksOf(fl, al) ==
    UNION {{[kind |-> "free", address |-> fl[s][i], size |-> s, at |-> i] :
               i \in 1..Len(fl[s])} : s \in DOMAIN fl}
    \cup {[kind |-> "allocated", address |-> a, size |-> al[a], at |-> 0] : a \in DOMAIN al}

RECURSIVE SumSizes(_)
SumSizes(S) ==
    IF S = {} THEN 0
    ELSE LET b == CHOOSE x \in S : TRUE IN b.size + SumSizes(S \ {b})

Covers(b, x) == b.address <= x /\ x < b.address + b.size

ListElems(s) == {s[i] : i \in 1..Len(s)}

Ready == phase = "ready"
AllocOk == Ready /\ call.op = "allocate" /\ call.err = "none"
FreeOk == Ready /\ call.op = "free" /\ call.err = "none"

(* ---- properties ---- *)

\* C1: in every reachable state the intervals [address, address+size) of all
\* free-list entries and all allocated entries partition [0, total_memory):
\* each address is covered by exactly one block, no block leaves the range, and
\* the sizes sum to total_memory.
C1_Partition ==
    Ready =>
        LET blocks == BlocksOf(free_list, allocated)
        IN  /\ \A b \in blocks : b.address >= 0 /\ b.address + b.size <= total_memory
            /\ \A x \in 0..(total_memory - 1) :
                   Cardinality({b \in blocks : Covers(b, x)}) = 1
            /\ SumSizes(blocks) = total_memory

\* a free has just merged while several blocks of both kinds exist
C1_Witness ==
    /\ FreeOk
    /\ Cardinality(DOMAIN allocated) >= 2
    /\ \E s \in DOMAIN free_list : Len(free_list[s]) >= 2
    /\ \E s \in DOMAIN free_list : s > next_power_of_two(call.size) /\ free_list[s] # <<>>

\* C2: a failing allocate or free leaves free_list and allocated exactly as
\* they were before the call.
C2_FailureAtomic ==
    (Ready /\ call.op \in {"allocate", "free"} /\ call.err # "none") =>
        /\ call.err \in {"RequestTooLarge", "NoSuitableBlock", "InvalidFree"}
        /\ free_list = old.free_list
        /\ allocated = old.allocated

\* allocate failed for lack of a large enough block while free blocks exist
C2_Witness ==
    /\ Ready /\ call.op = "allocate" /\ call.err = "NoSuitableBlock"
    /\ \E s \in DOMAIN free_list : free_list[s] # <<>>
    /\ DOMAIN allocated # {}

\* C3 as stated: free of an allocated address with a size other than the
\* recorded one always fails with InvalidFree and changes nothing.
C3_Original ==
    (Ready /\ call.op = "free" /\ call.address \in DOMAIN old.allocated
           /\ old.allocated[call.address] # call.size) =>
        /\ call.err = "InvalidFree"
        /\ free_list = old.free_list
        /\ allocated = old.allocated

\* C3 amended: free of an allocated address with a size whose rounding
\* next_power_of_two(size) differs from the recorded size fails and changes
\* nothing; the failure is RequestTooLarge when the rounded size exceeds
\* total_memory and InvalidFree otherwise.
C3_MismatchRejected ==
    (Ready /\ call.op = "free" /\ call.address \in DOMAIN old.allocated
           /\ old.allocated[call.address] # next_power_of_two(call.size)) =>
        /\ call.err = (IF next_power_of_two(call.size) > total_memory
                       THEN "RequestTooLarge" ELSE "InvalidFree")
        /\ free_list = old.free_list
        /\ allocated = old.allocated

\* free rejected a wrong size given for a genuinely allocated address
C3_Witness ==
    /\ Ready /\ call.op = "free" /\ call.err = "InvalidFree"
    /\ call.address \in DOMAIN allocated
    /\ allocated[call.address] > next_power_of_two(call.size)

\* C4: after a successful allocate(s) returning a, free(a, s) succeeds and
\* gives back, for every block size, the sequence of free addresses that was
\* there before the allocation (a missing size counting as empty), and the
\* allocated table of before.
C4_RoundTrip ==
    AllocOk =>
        LET f == free(free_list, allocated, total_memory, call.ret, call.size)
        IN  /\ f.err = "none"
            /\ \A s \in DOMAIN f.free_list \cup DOMAIN old.free_list :
                   GetOrEmpty(f.free_list, s) = GetOrEmpty(old.free_list, s)
            /\ f.allocated = old.allocated

\* the allocation split a block that was not the lowest of several in its list
C4_Witness ==
    /\ AllocOk
    /\ \E s \in DOMAIN old.free_list :
           /\ Len(old.free_list[s]) >= 2
           /\ Len(free_list[s]) < Len(old.free_list[s])
           /\ s > next_power_of_two(call.size)
    /\ DOMAIN old.allocated # {}

\* C5: whenever allocated is empty the free list holds exactly one block, of
\* size total_memory at address 0, and no address under any other size.
C5_FullCoalescing ==
    (Ready /\ DOMAIN allocated = {}) =>
        /\ total_memory \in DOMAIN free_list
        /\ \A s \in DOMAIN free_list :
               free_list[s] = (IF s = total_memory THEN <<0>> ELSE <<>>)

\* the last block was freed after splits at three or more levels
C5_Witness ==
    /\ FreeOk
    /\ DOMAIN allocated = {}
    /\ Cardinality(DOMAIN free_list) >= 4
    /\ call.address > 0

\* C6: allocate fails with RequestTooLarge exactly when the rounded size
\* exceeds total_memory; otherwise fails with NoSuitableBlock exactly when no
\* free list of a size >= rounded holds an address (always so when the whole
\* memory is allocated); otherwise succeeds and returns an address.
C6_AllocateOutcome ==
    (Ready /\ call.op = "allocate") =>
        LET rounded == next_power_of_two(call.size)
            served == \E s \in DOMAIN old.free_list :
                          s >= rounded /\ Len(old.free_list[s]) > 0
            full == SumSizes(BlocksOf(EmptyMap, old.allocated)) = total_memory
        IN  /\ (call.err = "RequestTooLarge") <=> (rounded > total_memory)
            /\ (call.err = "NoSuitableBlock") <=> (rounded <= total_memory /\ ~served)
            /\ (call.err = "none") <=> (rounded <= total_memory /\ served)
            /\ call.err = "none" => call.ret \in 0..(total_memory - 1)
            /\ call.err # "none" => call.ret = -1
            /\ (full /\ rounded <= total_memory) => call.err = "NoSuitableBlock"

\* the whole memory is held by one block and a minimal request is refused
C6_Witness ==
    /\ Ready /\ call.op = "allocate" /\ call.err = "NoSuitableBlock"
    /\ total_memory >= 2
    /\ DOMAIN allocated = {0} /\ allocated[0] = total_memory
    /\ call.size = 1

\* C7: a successful allocate returns the numerically lowest address of the
\* free list it takes its block from, as that list was before the call.
C7_LowestAddress ==
    AllocOk =>
        /\ \E b \in DOMAIN old.free_list : Len(free_list[b]) < Len(old.free_list[b])
        /\ \A b \in DOMAIN old.free_list :
               Len(free_list[b]) < Len(old.free_list[b]) =>
                   /\ call.ret \in ListElems(old.free_list[b])
                   /\ \A x \in ListElems(old.free_list[b]) : call.ret <= x

\* the block came from a list that offered at least two addresses
C7_Witness ==
    /\ AllocOk
    /\ \E b \in DOMAIN old.free_list :
           /\ Len(free_list[b]) < Len(old.free_list[b])
           /\ Len(old.free_list[b]) >= 2
           /\ call.ret # old.free_list[b][Len(old.free_list[b])]

\* C8: an address returned by allocate(s) is a multiple of
\* next_power_of_two(s); every free-list address is a multiple of the size it is
\* listed under and every allocated address a multiple of its recorded size.
C8_Alignment ==
    /\ AllocOk => IsMultiple(call.ret, next_power_of_two(call.size))
    /\ Ready =>
        /\ \A s \in DOMAIN free_list : \A a \in ListElems(free_list[s]) : IsMultiple(a, s)
        /\ \A a \in DOMAIN allocated : IsMultiple(a, allocated[a])

\* a block of at least two units was returned at a non-zero address
C8_Witness ==
    /\ AllocOk
    /\ call.ret > 0
    /\ next_power_of_two(call.size) >= 2
    /\ \E s \in DOMAIN free_list : \E a \in ListElems(free_list[s]) : a > 0

\* C9: construction fails with NotPowerOfTwo for every total_memory that is
\* not a positive power of two (zero and negatives included), so a constructed
\* allocator's total_memory is a power of two >= 1; it succeeds for every
\* positive power of two.
C9_Construction ==
    (phase # "new") =>
        /\ (phase = "failed") <=> ~IsPowerOfTwo(ctor_arg)
        /\ phase = "ready" => (IsPowerOfTwo(total_memory) /\ total_memory >= 1)

\* C10: for size >= 1, next_power_of_two(size) is the smallest power of two
\* >= size, and is size itself when size is a power of two.
C10_NextPowerOfTwo ==
    (Ready /\ call.op = "next_power_of_two" /\ call.size >= 1) =>
        /\ IsPowerOfTwo(call.ret)
        /\ call.ret >= call.size
        /\ \A p \in call.size..(call.ret - 1) : ~IsPowerOfTwo(p)
        /\ IsPowerOfTwo(call.size) => call.ret = call.size

\* a size that is not a power of two was rounded up past the next lower power
C10_Witness ==
    /\ Ready /\ call.op = "next_power_of_two"
    /\ call.size = 9 /\ call.ret = 16

\* sizes r, 2r, 4r, ... below B
RECURSIVE HalvesBelow(_, _)
HalvesBelow(r, B) == IF r >= 1 /\ r < B THEN {r} \cup HalvesBelow(r * 2, B) ELSE {}

\* sizes whose free list lost an address in the last call
ShrunkSizes ==
    {b \in DOMAIN old.free_list : Len(GetOrEmpty(free_list, b)) < Len(old.free_list[b])}

\* C11: a successful allocate takes its block from the smallest size
\* B >= next_power_of_two(size) whose free list was non-empty; no larger block
\* is split while a smaller sufficient free block exists.
C11_BestFit ==
    AllocOk =>
        LET rounded == next_power_of_two(call.size)
        IN  /\ Cardinality(ShrunkSizes) = 1
            /\ \A B \in ShrunkSizes :
                   /\ B >= rounded
                   /\ \A s \in DOMAIN old.free_list :
                          (s >= rounded /\ old.free_list[s] # <<>>) => B <= s

\* two different free sizes could serve the request
C11_Witness ==
    /\ AllocOk
    /\ Cardinality({s \in DOMAIN old.free_list :
                       s >= next_power_of_two(call.size) /\ old.free_list[s] # <<>>}) >= 2
    /\ \E B \in ShrunkSizes : B > next_power_of_two(call.size)

\* C12: a successful allocate taking block (a, B) for rounded size r removes a
\* from free_list[B], adds exactly the address a + h to free_list[h] for each h
\* in {r, 2r, ..., B/2}, records allocated[a] = r, returns a, and leaves every
\* other free-list entry as it was.
C12_SplitResult ==
    AllocOk =>
        LET r == next_power_of_two(call.size)
            a == call.ret
        IN  \E B \in DOMAIN old.free_list :
                /\ InSeq(a, old.free_list[B])
                /\ free_list[B] = ListRemove(old.free_list[B], a)
                /\ \A h \in HalvesBelow(r, B) :
                       /\ h \in DOMAIN free_list
                       /\ free_list[h] = Append(GetOrEmpty(old.free_list, h), a + h)
                /\ \A s \in (DOMAIN free_list \cup DOMAIN old.free_list)
                              \ ({B} \cup HalvesBelow(r, B)) :
                       GetOrEmpty(free_list, s) = GetOrEmpty(old.free_list, s)
                /\ a \in DOMAIN allocated /\ allocated[a] = r

\* a block was split twice, leaving a buddy at each of two levels
C12_Witness ==
    /\ AllocOk
    /\ \E B \in ShrunkSizes :
           /\ Cardinality(HalvesBelow(next_power_of_two(call.size), B)) >= 2
           /\ call.ret > 0

\* C13: in every reachable state the address sequence of every free-list size
\* is strictly ascending.
C13_Sorted ==
    Ready =>
        \A s \in DOMAIN free_list :
            \A i \in 1..Len(free_list[s]), j \in 1..Len(free_list[s]) :
                i < j => free_list[s][i] < free_list[s][j]

\* a free put an address in front of a higher address that was listed already
C13_Witness ==
    /\ FreeOk
    /\ \E s \in DOMAIN free_list :
           /\ Len(free_list[s]) >= 2
           /\ s \in DOMAIN old.free_list /\ old.free_list[s] # <<>>
           /\ free_list[s][1] < old.free_list[s][1]

\* the buddy of the block of size S at address A, by address arithmetic
BuddyOf(A, S) == IF (A \div S) % 2 = 0 THEN A + S ELSE A - S

\* address of the block of size S that contains address A
BlockStart(A, S) == A - (A % S)

\* the sequence s with x inserted in ascending order
InsertAscending(s, x) ==
    LET lower == {i \in 1..Len(s) : s[i] < x}
    IN  SubSeq(s, 1, Cardinality(lower)) \o <<x>> \o SubSeq(s, Cardinality(lower) + 1, Len(s))

\* C14: a successful free(address, size) merges the block (A, S), S <
\* total_memory, only with the buddy A XOR S listed in free_list[S]; each merge
\* removes that buddy and goes on with the block of size 2S at the lower of the
\* two addresses; when merging stops, exactly one address, that of the resulting
\* block, is added to the free list of the resulting size.
C14_CoalescingStep ==
    FreeOk =>
        LET S0 == next_power_of_two(call.size)
            A0 == call.address
        IN  \E k \in 0..total_memory :
                LET Sk == S0 * (2 ^ k)
                    Ak == BlockStart(A0, Sk)
                    merged == {S0 * (2 ^ i) : i \in 0..(k - 1)}
                IN  /\ Sk <= total_memory
                    /\ \A S \in merged :
                           /\ S \in DOMAIN old.free_list
                           /\ InSeq(BuddyOf(BlockStart(A0, S), S), old.free_list[S])
                           /\ free_list[S] =
                                  ListRemove(old.free_list[S], BuddyOf(BlockStart(A0, S), S))
                    /\ Sk < total_memory =>
                           ~InSeq(BuddyOf(Ak, Sk), GetOrEmpty(old.free_list, Sk))
                    /\ Sk \in DOMAIN free_list
                    /\ free_list[Sk] = InsertAscending(GetOrEmpty(old.free_list, Sk), Ak)
                    /\ \A s \in (DOMAIN free_list \cup DOMAIN old.free_list)
                                  \ (merged \cup {Sk}) :
                           GetOrEmpty(free_list, s) = GetOrEmpty(old.free_list, s)

\* two merges were made, the freed block being the upper buddy, and merging
\* stopped below the whole memory
C14_Witness ==
    /\ FreeOk
    /\ LET S0 == next_power_of_two(call.size)
       IN  /\ InSeq(call.address - S0, GetOrEmpty(old.free_list, S0))
           /\ S0 * 4 < total_memory
           /\ S0 * 4 \in DOMAIN free_list
           /\ Len(free_list[S0 * 4]) > Len(GetOrEmpty(old.free_list, S0 * 4))

\* C15: a freed address cannot be freed again: right after a successful
\* free(a, s) every free(a, s') fails and changes nothing; any free of an
\* address that is not a key of allocated fails (InvalidFree when the rounded
\* size fits total_memory) and changes nothing; a successful free was given a
\* key of allocated; and an address becomes a key of allocated only by an
\* allocate that returns it.
C15_NoDoubleFree ==
    /\ FreeOk =>
           /\ call.address \in DOMAIN old.allocated
           /\ \A s2 \in SizeInputs :
                  LET f == free(free_list, allocated, total_memory, call.address, s2)
                  IN  /\ f.err = (IF next_power_of_two(s2) > total_memory
                                  THEN "RequestTooLarge" ELSE "InvalidFree")
                      /\ f.free_list = free_list
                      /\ f.allocated = allocated
    /\ (Ready /\ call.op = "free" /\ call.address \notin DOMAIN old.allocated) =>
           /\ call.err = (IF next_power_of_two(call.size) > total_memory
                          THEN "RequestTooLarge" ELSE "InvalidFree")
           /\ free_list = old.free_list
           /\ allocated = old.allocated
    /\ Ready =>
           \A a \in DOMAIN allocated \ DOMAIN old.allocated : AllocOk /\ call.ret = a

\* a free was refused for an address that lies in the free list under the
\* size given, while other blocks are allocated
C15_Witness ==
    /\ Ready /\ call.op = "free" /\ call.err = "InvalidFree"
    /\ call.address \notin DOMAIN allocated
    /\ InSeq(call.address, GetOrEmpty(free_list, next_power_of_two(call.size)))
    /\ call.address > 0
    /\ DOMAIN allocated # {}

\* C16: in every reachable state no two free blocks of the same size
\* S < total_memory are buddies of each other.
C16_NoFreeBuddies ==
    Ready =>
        \A S \in DOMAIN free_list :
            S < total_memory =>
                \A A \in ListElems(free_list[S]) :
                    BuddyOf(A, S) \notin ListElems(free_list[S])

\* a free stopped merging with two non-buddy blocks listed under one size
C16_Witness ==
    /\ FreeOk
    /\ \E S \in DOMAIN free_list :
           /\ Len(free_list[S]) >= 2
           /\ Len(free_list[S]) > Len(GetOrEmpty(old.free_list, S))

\* C17: allocate(size) with rounded = next_power_of_two(size) <= total_memory
\* succeeds whenever some aligned range [k*rounded, (k+1)*rounded) of
\* [0, total_memory) is free of allocated blocks, and fails with NoSuitableBlock
\* only when there is none.
C17_NoAvoidableFailure ==
    (Ready /\ call.op = "allocate"
           /\ next_power_of_two(call.size) <= total_memory) =>
        LET rounded == next_power_of_two(call.size)
            unallocated(k) ==
                \A a \in DOMAIN old.allocated :
                    \/ a + old.allocated[a] <= k * rounded
                    \/ (k + 1) * rounded <= a
            available == \E k \in 0..((total_memory \div rounded) - 1) : unallocated(k)
        IN  /\ available => call.err = "none"
            /\ ~available => call.err = "NoSuitableBlock"

\* a request failed although as much memory is free as was asked for
C17_Witness ==
    /\ Ready /\ call.op = "allocate" /\ call.err = "NoSuitableBlock"
    /\ SumSizes(BlocksOf(free_list, EmptyMap)) >= next_power_of_two(call.size)

\* C18: a successful allocate adds exactly the entry (returned address ->
\* rounded size) to allocated, at an address that was no key before, and keeps
\* every other entry; a successful free(a, s) removes exactly the entry of a and
\* keeps every other entry; total_memory stays the constructed value.
C18_AllocatedFrame ==
    /\ AllocOk =>
           /\ call.ret \notin DOMAIN old.allocated
           /\ DOMAIN allocated = DOMAIN old.allocated \cup {call.ret}
           /\ allocated[call.ret] = next_power_of_two(call.size)
           /\ \A a \in DOMAIN old.allocated : allocated[a] = old.allocated[a]
    /\ FreeOk =>
           /\ call.address \in DOMAIN old.allocated
           /\ DOMAIN allocated = DOMAIN old.allocated \ {call.address}
           /\ \A a \in DOMAIN allocated : allocated[a] = old.allocated[a]
    /\ Ready => total_memory = ctor_arg

\* a size that is not a power of two was allocated next to two live blocks
C18_Witness ==
    /\ AllocOk
    /\ Cardinality(DOMAIN old.allocated) >= 2
    /\ next_power_of_two(call.size) # call.size
====
